---------------------------- MODULE Spec2Model ----------------------------
(***************************************************************************)
(* A model of github.com/lsmoura/cache: the HTTP response cache whose      *)
(* Cache.Do sits in front of an HTTP client.  The state is the storage     *)
(* provider's map, the clock, the caller's request objects (whose header   *)
(* map Do mutates) and, for every call of Do in progress, its position and *)
(* its local variables.  A call of Do is split at its two blocking calls:  *)
(* the transport's Do and the provider's Set.                              *)
(***************************************************************************)
EXTENDS Integers, Sequences, FiniteSets, TLC

VARIABLES
    now,          \* the wall clock read by time.Now()
    data,         \* the provider's map: key -> stored bytes
    KeyGenerator, \* Cache.KeyGenerator: "nil" or "const"
    reqHeader,    \* the header map of each request object of the caller
    call,         \* per caller: the call of Do in progress
    contexts,     \* the context values derived so far, each from its parent
    mem,          \* a MemoryProvider used on its own: its map
    history       \* the calls made on mem and what they returned

\* the state of the parts of the library that are exercised on their own
unitVars == <<contexts, mem, history>>

vars == <<now, data, KeyGenerator, reqHeader, call, contexts, mem, history>>

---------------------------------------------------------------------------
(* Bounds *)

\* the clock runs from 0 to MaxTime
MaxTime == 1

\* at most MaxCtx contexts are derived
MaxCtx == 3

\* at most MaxOps calls are made on the provider that is used on its own
MaxOps == 3

---------------------------------------------------------------------------
(* Values *)

Procs == {"p1", "p2"}

\* callers that issue calls under Spec: one caller, one call at a time
SeqProcs == {"p1"}

URLs == {"u1", "u2"}

\* the caller's request objects: their method and URL never change
Reqs == {"rq1", "rq2", "rq3"}

ReqMethod(r) == IF r = "rq3" THEN "POST" ELSE "GET"

ReqURL(r) == IF r = "rq2" THEN "u2" ELSE "u1"

\* the method test lets POST through to the cache and GET past it
MethodGet_Post == "POST"

MethodGet == "GET"

StatusNotModified == 304

\* the key a constant key generator returns (TestCache_Keygen)
ConstKey == "foo"

Keys == URLs \cup {ConstKey}

\* the text of the dates the transport puts in Expires: DateText[t + 1] is
\* time t formatted as RFC1123
DateText == <<"Thu, 01 Jan 1970 00:00:00 UTC", "Thu, 01 Jan 1970 00:00:01 UTC">>

Format(t) == DateText[t + 1]

EmptyHeader == [n \in {} |-> <<>>]

Hdr1(n1, v1) == [n \in {n1} |-> v1]

Hdr2(n1, v1, n2, v2) == [n \in {n1, n2} |-> IF n = n1 THEN v1 ELSE v2]

Hdr3(n1, v1, n2, v2, n3, v3) ==
    [n \in {n1, n2, n3} |-> IF n = n1 THEN v1 ELSE IF n = n2 THEN v2 ELSE v3]

\* the responses the tests' transport gives for a URL: status, body, and a
\* header map from name to a non-empty list of values.  The two URLs never
\* share a body (TestCache_Keygen).
FakeReplies(u) ==
    IF u = "u1"
    THEN { [StatusCode |-> 200, Body |-> "Hello World",
            Header |-> Hdr1("Expires", <<Format(1)>>)],
           [StatusCode |-> 200, Body |-> "Hello World",
            Header |-> Hdr2("Expires", <<Format(0)>>, "ETag", <<"e1">>)],
           [StatusCode |-> 200, Body |-> "Other",
            Header |-> Hdr3("Expires", <<Format(0)>>, "ETag", <<"e2", "e1">>,
                            "Last-Modified", <<"lm1", "lm2">>)],
           [StatusCode |-> 404, Body |-> "Not Found", Header |-> Hdr1("ETag", <<"">>)],
           [StatusCode |-> 500, Body |-> "Other",
            Header |-> Hdr2("Expires", <<"tomorrow">>, "ETag", <<"e1">>)],
           [StatusCode |-> 304, Body |-> "", Header |-> EmptyHeader],
           [StatusCode |-> 304, Body |-> "",
            Header |-> Hdr2("Expires", <<Format(1)>>, "ETag", <<"e2">>)] }
    ELSE { [StatusCode |-> 200, Body |-> "Should not happen",
            Header |-> Hdr2("Expires", <<Format(1)>>, "ETag", <<"abcd">>)],
           [StatusCode |-> 200, Body |-> "Should not happen",
            Header |-> Hdr1("Last-Modified", <<"lm3">>)],
           [StatusCode |-> 304, Body |-> "", Header |-> EmptyHeader] }

\* textproto.CanonicalMIMEHeaderKey, on the names the model uses: net/http
\* gives every header of a response it reads its canonical name
CanonicalMIMEHeaderKey(n) == IF n = "ETag" THEN "Etag" ELSE n

\* a header map as http.DefaultClient returns it
CanonicalHeader(h) ==
    [c \in {CanonicalMIMEHeaderKey(n) : n \in DOMAIN h} |->
        h[CHOOSE n \in DOMAIN h : CanonicalMIMEHeaderKey(n) = c]]

\* a response of http.DefaultClient, the transport of a Cache whose
\* HttpClient is nil, to a server that sends Expires and ETag
DefaultClientReplies(u) ==
    IF u = "u1"
    THEN { [StatusCode |-> 200, Body |-> "Other",
            Header |-> CanonicalHeader(Hdr2("Expires", <<Format(0)>>,
                                            "ETag", <<"e3">>))] }
    ELSE {}

\* the responses of the transport, r.httpClient().Do(req)
Replies(u) == FakeReplies(u) \cup DefaultClientReplies(u)

\* the transport's answer when it fails
TransportError == [StatusCode |-> 0, Body |-> "", Header |-> EmptyHeader]

AllReplies == UNION {Replies(u) : u \in URLs}

NoResp == [nil |-> TRUE]

NoEntry == [nil |-> TRUE]

\* stored bytes: nothing, or bytes that are no JSON document
NilBytes == [fmt |-> "nil"]

Garbage == [fmt |-> "garbage"]

Ctxs == [ignoreExpired : BOOLEAN, ignoreCache : BOOLEAN, onlyCached : BOOLEAN]

Background == [ignoreExpired |-> FALSE, ignoreCache |-> FALSE, onlyCached |-> FALSE]

---------------------------------------------------------------------------
(* Context flags *)

\* the value is read under the wrong context key
IgnoreExpired_WrongKey(ctx) == ctx.ignoreCache

IgnoreExpired(ctx) == ctx.ignoreExpired

\* the value is read under the wrong context key
IgnoreCache_WrongKey(ctx) == ctx.ignoreExpired

IgnoreCache(ctx) == ctx.ignoreCache

\* the flag counts only when no other flag is set
OnlyCached_Alone(ctx) == ctx.onlyCached /\ ~ctx.ignoreExpired /\ ~ctx.ignoreCache

OnlyCached(ctx) == ctx.onlyCached

---------------------------------------------------------------------------
(* cacheEntry *)

\* time.Parse(time.RFC1123, s)
ParseRFC1123(s) ==
    IF \E i \in DOMAIN DateText : DateText[i] = s
    THEN [ok |-> TRUE, t |-> (CHOOSE i \in DOMAIN DateText : DateText[i] = s) - 1]
    ELSE [ok |-> FALSE, t |-> 0]

\* the comparison turned round: expires.After(now)
expired_After(e, t) ==
    IF "Expires" \notin DOMAIN e.Headers THEN TRUE
    ELSE LET p == ParseRFC1123(e.Headers["Expires"])
         IN  IF ~p.ok THEN TRUE ELSE p.t > t

\* fail-open: an entry with no Expires, or one that does not parse, never
\* expires
expired_FailOpen(e, t) ==
    IF "Expires" \notin DOMAIN e.Headers THEN FALSE
    ELSE LET p == ParseRFC1123(e.Headers["Expires"])
         IN  IF ~p.ok THEN FALSE ELSE p.t < t

expired(e, t) ==
    IF "Expires" \notin DOMAIN e.Headers THEN TRUE
    ELSE LET p == ParseRFC1123(e.Headers["Expires"])
         IN  IF ~p.ok THEN TRUE ELSE p.t < t

asHttpResponse(e) ==
    [StatusCode |-> e.StatusCode,
     Body       |-> e.Data,
     Header     |-> [k \in DOMAIN e.Headers |-> <<e.Headers[k]>>]]

---------------------------------------------------------------------------
(* Serialisation of an entry (encoding/json) *)

Base64(d) == <<"base64", d>>

Marshal(e) ==
    [fmt |-> "json", ts |-> e.Ts, status_code |-> e.StatusCode,
     data |-> Base64(e.Data), headers |-> e.Headers]

\* the body is taken as it stands in the document, without decoding it
Unmarshal_NoDecode(v) ==
    IF v.fmt = "json"
    THEN [ok |-> TRUE,
          entry |-> [Ts |-> v.ts, StatusCode |-> v.status_code,
                     Data |-> v.data, Headers |-> v.headers]]
    ELSE [ok |-> FALSE, entry |-> NoEntry]

Unmarshal(v) ==
    IF v.fmt = "json"
    THEN [ok |-> TRUE,
          entry |-> [Ts |-> v.ts, StatusCode |-> v.status_code,
                     Data |-> v.data[2], Headers |-> v.headers]]
    ELSE [ok |-> FALSE, entry |-> NoEntry]

BytesLen(v) == IF v = NilBytes THEN 0 ELSE 1

---------------------------------------------------------------------------
(* Key derivation *)

DefaultKeyGenerator(r) == ReqURL(r)

\* the configured generator is never used
key_AlwaysDefault(r) == DefaultKeyGenerator(r)

\* Cache.key
key(r) == IF KeyGenerator = "nil" THEN DefaultKeyGenerator(r) ELSE ConstKey

---------------------------------------------------------------------------
(* The call of Do in progress *)

NoError == "nil"

ErrCacheExpired == "cache expired"

ErrCacheExpiryIgnored == "cache expiry ignored"

ErrCacheMiss == "cache miss"

ErrProviderGet == "provider.Get()"

ErrHttpDo == "http.Do()"

ErrNoCachedEntry == "no cached entry to return"

ErrStore == "r.store()"

ErrProviderSet == "provider.Set()"

ErrTransport == "transport"

cacheStatExpired == "expired"

cacheStatHit == "hit"

cacheStatIgnoreCheck == "ignored_check"

cacheStatIgnored == "ignored"

cacheStatIgnoredExpiry == "ignored_expiry"

cacheStatMiss == "miss"

\* the bytes under k are an entry, as Do stored it
StoredEntry(k) == data[k].fmt = "json"

\* the stored entry's Expires is a date that is not before now
StoredFresh(k) ==
    /\ StoredEntry(k)
    /\ "Expires" \in DOMAIN data[k].headers
    /\ \E i \in DOMAIN DateText :
          DateText[i] = data[k].headers["Expires"] /\ i - 1 >= now

StoredExpired(k) == StoredEntry(k) /\ ~StoredFresh(k)

\* history, for the claims only: what the storage holds under k
Held(k) ==
    IF data[k] = NilBytes THEN "absent"
    ELSE IF ~StoredEntry(k) THEN "malformed"
    ELSE IF StoredFresh(k) THEN "fresh" ELSE "expired"

\* a caller that is not inside Do.  pc: "idle", "check" (between the read
\* and the onlyCached test, never a state), "dispatch" (about to call the
\* transport), "finish" (the transport has answered), "done" (Do has
\* returned ret, err), "crashed" (the runtime has ended the process).  get, set: the outcome of this call's provider.Get
\* and provider.Set, "none" when it was not called.  held: what the storage
\* held under the key when Do began.  ops: the calls Do has made on the
\* provider and the transport, in order.  events: what Do has handed to its
\* logger, in order.
IdleCall ==
    [pc |-> "idle", req |-> "none", ctx |-> Background, key |-> "",
     entry |-> NoEntry, stat |-> "", get |-> "none", transportCalls |-> 0,
     resp |-> NoResp, set |-> "none", ret |-> NoResp, err |-> NoError,
     held |-> "", ops |-> <<>>, events |-> <<>>]

\* the key-values the call's logger has been given so far by event.With:
\* the URL, the key once it is derived, the status once the transport has
\* answered a GET (the elapsed time is left out)
EventFields(c) ==
    LET names == {"url"}
                 \cup (IF ReqMethod(c.req) = MethodGet THEN {"cache-key"} ELSE {})
                 \cup (IF c.resp # NoResp THEN {"status"} ELSE {})
    IN  [n \in names |->
            IF n = "url" THEN ReqURL(c.req)
            ELSE IF n = "cache-key" THEN c.key
            ELSE c.resp.StatusCode]

\* the error is reported at the level of the completion event
ErrorEvent_AsInfo(c, err) ==
    [level |-> "INFO", msg |-> "error", err |-> err, fields |-> EventFields(c)]

\* event.Error("error", "err", err)
ErrorEvent(c, err) ==
    [level |-> "ERROR", msg |-> "error", err |-> err, fields |-> EventFields(c)]

\* the deferred function's event: the cache tag is added when stat is set
CompletionEvent(c) ==
    [level |-> "INFO", msg |-> "cache.Do", err |-> NoError,
     fields |-> LET f == EventFields(c) IN
                IF c.stat # ""
                THEN [n \in DOMAIN f \cup {"cache"} |->
                         IF n = "cache" THEN c.stat ELSE f[n]]
                ELSE f]

\* the event is written only when Do returns no error
Deferred_OnSuccessOnly(c) ==
    IF c.pc = "done" /\ c.err = NoError
    THEN [c EXCEPT !.events = Append(@, CompletionEvent(c))]
    ELSE c

\* the deferred function of Do, run when Do returns
Deferred(c) ==
    IF c.pc = "done"
    THEN [c EXCEPT !.events = Append(@, CompletionEvent(c))]
    ELSE c

---------------------------------------------------------------------------
(* Cache.read, Cache.write, Cache.store *)

\* bytes that do not unmarshal are reported as an error
read_CorruptionError(ctx, k, getOk) ==
    IF ~getOk THEN [entry |-> NoEntry, err |-> ErrProviderGet]
    ELSE LET value == data[k] IN
         IF BytesLen(value) = 0 THEN [entry |-> NoEntry, err |-> NoError]
         ELSE LET u == Unmarshal(value) IN
              IF ~u.ok THEN [entry |-> NoEntry, err |-> "json.Unmarshal()"]
              ELSE IF expired(u.entry, now)
                   THEN IF IgnoreExpired(ctx)
                        THEN [entry |-> u.entry, err |-> ErrCacheExpiryIgnored]
                        ELSE [entry |-> u.entry, err |-> ErrCacheExpired]
                   ELSE [entry |-> u.entry, err |-> NoError]

\* provider.Get: the memory provider's map lookup; getOk is FALSE when the
\* provider fails (a provider that is not initialised, a network error)
read(ctx, k, getOk) ==
    IF ~getOk THEN [entry |-> NoEntry, err |-> ErrProviderGet]
    ELSE LET value == data[k] IN
         IF BytesLen(value) = 0 THEN [entry |-> NoEntry, err |-> NoError]
         ELSE LET u == Unmarshal(value) IN
              IF ~u.ok THEN [entry |-> NoEntry, err |-> NoError]
              ELSE IF expired(u.entry, now)
                   THEN IF IgnoreExpired(ctx)
                        THEN [entry |-> u.entry, err |-> ErrCacheExpiryIgnored]
                        ELSE [entry |-> u.entry, err |-> ErrCacheExpired]
                   ELSE [entry |-> u.entry, err |-> NoError]

\* the entry is stamped with the time of the write
write_Restamped(k, e, setOk) ==
    IF setOk THEN [data EXCEPT ![k] = Marshal([e EXCEPT !.Ts = now])] ELSE data

\* the provider's map after write(ctx, k, e): provider.Set stores the
\* marshalled entry, or fails and stores nothing
write(k, e, setOk) ==
    IF setOk THEN [data EXCEPT ![k] = Marshal(e)] ELSE data

\* the loop that copies the headers is left out
newEntry_NoHeaders(resp) ==
    [Ts         |-> now,
     StatusCode |-> resp.StatusCode,
     Data       |-> resp.Body,
     Headers    |-> EmptyHeader]

\* the entry store() builds from the transport's response
newEntry(resp) ==
    [Ts         |-> now,
     StatusCode |-> resp.StatusCode,
     Data       |-> resp.Body,
     Headers    |-> [k \in DOMAIN resp.Header |-> resp.Header[k][1]]]

---------------------------------------------------------------------------
(* Cache.Do *)

\* ignoreExpired is looked at first: with both flags the storage is read
DoLookup_ExpiryFirst(c, getOk) ==
    IF IgnoreCache(c.ctx) /\ ~IgnoreExpired(c.ctx)
    THEN [c EXCEPT !.stat = cacheStatIgnored, !.pc = "check"]
    ELSE LET rd == read(c.ctx, c.key, getOk)
             cg == [c EXCEPT !.ops = Append(@, "Get")]
         IN
         IF rd.err # NoError
         THEN IF rd.err = ErrCacheExpired
              THEN [cg EXCEPT !.get = "ok", !.entry = rd.entry,
                             !.stat = cacheStatExpired, !.pc = "check"]
              ELSE IF rd.err = ErrCacheExpiryIgnored
              THEN [cg EXCEPT !.get = "ok", !.entry = rd.entry,
                             !.stat = cacheStatIgnoredExpiry,
                             !.ret = asHttpResponse(rd.entry), !.pc = "done"]
              ELSE [cg EXCEPT !.get = "err", !.err = rd.err, !.pc = "done",
                              !.events = Append(@, ErrorEvent(cg, rd.err))]
         ELSE IF rd.entry # NoEntry
              THEN [cg EXCEPT !.get = "ok", !.entry = rd.entry,
                             !.stat = cacheStatHit,
                             !.ret = asHttpResponse(rd.entry), !.pc = "done"]
              ELSE [cg EXCEPT !.get = "ok", !.stat = cacheStatMiss, !.pc = "check"]

\* the provider's failure is taken for a miss
DoLookup_ErrorAsMiss(c, getOk) ==
    IF IgnoreCache(c.ctx) THEN [c EXCEPT !.stat = cacheStatIgnored, !.pc = "check"]
    ELSE LET rd == read(c.ctx, c.key, getOk)
             cg == [c EXCEPT !.ops = Append(@, "Get")]
         IN
         IF rd.err # NoError
         THEN IF rd.err = ErrCacheExpired
              THEN [cg EXCEPT !.get = "ok", !.entry = rd.entry,
                             !.stat = cacheStatExpired, !.pc = "check"]
              ELSE IF rd.err = ErrCacheExpiryIgnored
              THEN [cg EXCEPT !.get = "ok", !.entry = rd.entry,
                             !.stat = cacheStatIgnoredExpiry,
                             !.ret = asHttpResponse(rd.entry), !.pc = "done"]
              ELSE [cg EXCEPT !.get = "err", !.stat = cacheStatMiss, !.pc = "check"]
         ELSE IF rd.entry # NoEntry
              THEN [cg EXCEPT !.get = "ok", !.entry = rd.entry,
                             !.stat = cacheStatHit,
                             !.ret = asHttpResponse(rd.entry), !.pc = "done"]
              ELSE [cg EXCEPT !.get = "ok", !.stat = cacheStatMiss, !.pc = "check"]

\* an expired entry kept under ignoreExpired does not return at once: the
\* call goes on to the onlyCached test
DoLookup_IgnoredExpiryGoesOn(c, getOk) ==
    IF IgnoreCache(c.ctx) THEN [c EXCEPT !.stat = cacheStatIgnored, !.pc = "check"]
    ELSE LET rd == read(c.ctx, c.key, getOk)
             cg == [c EXCEPT !.ops = Append(@, "Get")]
         IN
         IF rd.err # NoError
         THEN IF rd.err = ErrCacheExpired
              THEN [cg EXCEPT !.get = "ok", !.entry = rd.entry,
                             !.stat = cacheStatExpired, !.pc = "check"]
              ELSE IF rd.err = ErrCacheExpiryIgnored
              THEN [cg EXCEPT !.get = "ok", !.entry = rd.entry,
                             !.stat = cacheStatIgnoredExpiry, !.pc = "check"]
              ELSE [cg EXCEPT !.get = "err", !.err = rd.err, !.pc = "done",
                              !.events = Append(@, ErrorEvent(cg, rd.err))]
         ELSE IF rd.entry # NoEntry
              THEN [cg EXCEPT !.get = "ok", !.entry = rd.entry,
                             !.stat = cacheStatHit,
                             !.ret = asHttpResponse(rd.entry), !.pc = "done"]
              ELSE [cg EXCEPT !.get = "ok", !.stat = cacheStatMiss, !.pc = "check"]

\* Do, from the ignoreCache test to the end of the read's outcomes
DoLookup(c, getOk) ==
    IF IgnoreCache(c.ctx) THEN [c EXCEPT !.stat = cacheStatIgnored, !.pc = "check"]
    ELSE LET rd == read(c.ctx, c.key, getOk)
             cg == [c EXCEPT !.ops = Append(@, "Get")]
         IN
         IF rd.err # NoError
         THEN IF rd.err = ErrCacheExpired
              THEN [cg EXCEPT !.get = "ok", !.entry = rd.entry,
                             !.stat = cacheStatExpired, !.pc = "check"]
              ELSE IF rd.err = ErrCacheExpiryIgnored
              THEN [cg EXCEPT !.get = "ok", !.entry = rd.entry,
                             !.stat = cacheStatIgnoredExpiry,
                             !.ret = asHttpResponse(rd.entry), !.pc = "done"]
              ELSE [cg EXCEPT !.get = "err", !.err = rd.err, !.pc = "done",
                              !.events = Append(@, ErrorEvent(cg, rd.err))]
         ELSE IF rd.entry # NoEntry
              THEN [cg EXCEPT !.get = "ok", !.entry = rd.entry,
                             !.stat = cacheStatHit,
                             !.ret = asHttpResponse(rd.entry), !.pc = "done"]
              ELSE [cg EXCEPT !.get = "ok", !.stat = cacheStatMiss, !.pc = "check"]

\* with no entry the call goes on to the transport
DoOnlyCached_FallsThrough(c) ==
    IF OnlyCached(c.ctx) /\ c.entry # NoEntry
    THEN [c EXCEPT !.stat = cacheStatIgnoreCheck,
                   !.ret = asHttpResponse(c.entry), !.pc = "done"]
    ELSE [c EXCEPT !.pc = "dispatch"]

\* the miss is reported whatever was read
DoOnlyCached_AlwaysMiss(c) ==
    IF OnlyCached(c.ctx)
    THEN [c EXCEPT !.stat = cacheStatIgnoreCheck, !.err = ErrCacheMiss,
                   !.pc = "done"]
    ELSE [c EXCEPT !.pc = "dispatch"]

\* Do, the onlyCached test
DoOnlyCached(c) ==
    IF OnlyCached(c.ctx)
    THEN IF c.entry = NoEntry
         THEN [c EXCEPT !.stat = cacheStatIgnoreCheck, !.err = ErrCacheMiss,
                        !.pc = "done"]
         ELSE [c EXCEPT !.stat = cacheStatIgnoreCheck,
                        !.ret = asHttpResponse(c.entry), !.pc = "done"]
    ELSE [c EXCEPT !.pc = "dispatch"]

\* Do, "find ETAG": the request's header map after the entry's ETag, when
\* it has one that is not empty, is set as If-None-Match
SetIfNoneMatch(h, entry) ==
    IF entry # NoEntry /\ "ETag" \in DOMAIN entry.Headers /\ entry.Headers["ETag"] # ""
    THEN Hdr1("If-None-Match", entry.Headers["ETag"])
    ELSE h

\* an entry that is served as a hit is written back with a new timestamp
DoStart_RewritesHit(p, r, ctx, getOk) ==
    /\ call[p].pc = "idle"
    /\ \A q \in Procs : call[q].req # r
    /\ LET c0 == [IdleCall EXCEPT !.req = r, !.ctx = ctx] IN
       IF ReqMethod(r) # MethodGet
       THEN /\ call' = [call EXCEPT ![p] = [c0 EXCEPT !.pc = "dispatch"]]
            /\ UNCHANGED <<reqHeader, data>>
       ELSE LET c1 == DoLookup([c0 EXCEPT !.key = key(r), !.held = Held(key(r))], getOk)
                c2 == IF c1.pc = "check" THEN DoOnlyCached(c1) ELSE c1
            IN  /\ call' = [call EXCEPT ![p] = Deferred(c2)]
                /\ reqHeader' =
                      IF c2.pc = "dispatch"
                      THEN [reqHeader EXCEPT ![r] = SetIfNoneMatch(reqHeader[r], c2.entry)]
                      ELSE reqHeader
                /\ data' = IF c2.stat = cacheStatHit
                           THEN write(c2.key, [c2.entry EXCEPT !.Ts = now], TRUE)
                           ELSE data
    /\ UNCHANGED <<now, KeyGenerator, unitVars>>

\* Do begins: the method test, the key, the read and the flags, up to the
\* call of the transport
DoStart(p, r, ctx, getOk) ==
    /\ call[p].pc = "idle"
    /\ \A q \in Procs : call[q].req # r
    /\ LET c0 == [IdleCall EXCEPT !.req = r, !.ctx = ctx] IN
       IF ReqMethod(r) # MethodGet
       THEN /\ call' = [call EXCEPT ![p] = [c0 EXCEPT !.pc = "dispatch"]]
            /\ UNCHANGED reqHeader
       ELSE LET c1 == DoLookup([c0 EXCEPT !.key = key(r), !.held = Held(key(r))], getOk)
                c2 == IF c1.pc = "check" THEN DoOnlyCached(c1) ELSE c1
            IN  /\ call' = [call EXCEPT ![p] = Deferred(c2)]
                /\ reqHeader' =
                      IF c2.pc = "dispatch"
                      THEN [reqHeader EXCEPT ![r] = SetIfNoneMatch(reqHeader[r], c2.entry)]
                      ELSE reqHeader
    /\ UNCHANGED <<now, data, KeyGenerator, unitVars>>

\* a failed call of the transport is tried once more
DoDispatch_Retries(p, reply) ==
    /\ call[p].pc = "dispatch"
    /\ reply \in Replies(ReqURL(call[p].req)) \cup {TransportError}
    /\ LET c == [call[p] EXCEPT !.transportCalls = @ + 1,
                               !.ops = Append(@, "Do")] IN
       call' = [call EXCEPT ![p] = Deferred(
          IF ReqMethod(c.req) # MethodGet
          THEN IF reply = TransportError
               THEN [c EXCEPT !.err = ErrTransport, !.pc = "done"]
               ELSE [c EXCEPT !.ret = reply, !.pc = "done"]
          ELSE IF reply = TransportError
               THEN IF c.transportCalls < 2
                    THEN c
                    ELSE [c EXCEPT !.err = ErrHttpDo, !.pc = "done",
                              !.events = Append(@, ErrorEvent(c, ErrTransport))]
               ELSE [c EXCEPT !.resp = reply, !.pc = "finish"])]
    /\ UNCHANGED <<now, data, KeyGenerator, reqHeader, unitVars>>

\* the call of the transport and its answer: a response, or TransportError
\* when it fails
DoDispatch(p, reply) ==
    /\ call[p].pc = "dispatch"
    /\ reply \in Replies(ReqURL(call[p].req)) \cup {TransportError}
    /\ LET c == [call[p] EXCEPT !.transportCalls = @ + 1,
                               !.ops = Append(@, "Do")] IN
       call' = [call EXCEPT ![p] = Deferred(
          IF ReqMethod(c.req) # MethodGet
          THEN IF reply = TransportError
               THEN [c EXCEPT !.err = ErrTransport, !.pc = "done"]
               ELSE [c EXCEPT !.ret = reply, !.pc = "done"]
          ELSE IF reply = TransportError
               THEN [c EXCEPT !.err = ErrHttpDo, !.pc = "done",
                              !.events = Append(@, ErrorEvent(c, ErrTransport))]
               ELSE [c EXCEPT !.resp = reply, !.pc = "finish"])]
    /\ UNCHANGED <<now, data, KeyGenerator, reqHeader, unitVars>>

\* the body of the transport's response is kept
NotModifiedResponse_KeepsBody(resp, entry) ==
    [StatusCode |-> resp.StatusCode,
     Body       |-> resp.Body,
     Header     |-> [n \in DOMAIN resp.Header \cup
                            (DOMAIN entry.Headers \cap {"Expires", "Last-Modified"}) |->
                        IF n \in {"Expires", "Last-Modified"} /\ n \in DOMAIN entry.Headers
                        THEN <<entry.Headers[n]>>
                        ELSE resp.Header[n]]]

\* the response Do returns on a 304: the transport's, with the entry's
\* Expires and Last-Modified set on it and the entry's body
NotModifiedResponse(resp, entry) ==
    [StatusCode |-> resp.StatusCode,
     Body       |-> entry.Data,
     Header     |-> [n \in DOMAIN resp.Header \cup
                            (DOMAIN entry.Headers \cap {"Expires", "Last-Modified"}) |->
                        IF n \in {"Expires", "Last-Modified"} /\ n \in DOMAIN entry.Headers
                        THEN <<entry.Headers[n]>>
                        ELSE resp.Header[n]]]

\* the error of store() is only logged, as the error of the write on the
\* 304 path is
DoFinish_StoreErrorLogged(p, setOk) ==
    /\ call[p].pc = "finish"
    /\ LET c  == call[p]
           cs == [c EXCEPT !.ops = Append(@, "Set")]
       IN
       IF c.resp.StatusCode = StatusNotModified
       THEN IF c.entry = NoEntry
            THEN /\ call' = [call EXCEPT ![p] =
                       Deferred([c EXCEPT !.err = ErrNoCachedEntry, !.pc = "done",
                                 !.events = Append(@, ErrorEvent(c, ErrNoCachedEntry))])]
                 /\ UNCHANGED data
            ELSE /\ data' = write(c.key, c.entry, setOk)
                 /\ call' = [call EXCEPT ![p] =
                       Deferred([cs EXCEPT !.set = IF setOk THEN "ok" ELSE "err",
                                  !.ret = NotModifiedResponse(c.resp, c.entry),
                                  !.pc = "done",
                                  !.events = IF setOk THEN @
                                             ELSE Append(@, ErrorEvent(c, ErrProviderSet))])]
       ELSE LET e == newEntry(c.resp) IN
            /\ data' = write(c.key, e, setOk)
            /\ call' = [call EXCEPT ![p] =
                  Deferred([cs EXCEPT !.set = IF setOk THEN "ok" ELSE "err",
                                  !.ret = asHttpResponse(e), !.pc = "done",
                                  !.events = IF setOk THEN @
                                             ELSE Append(@, ErrorEvent(c, ErrStore))])]
    /\ UNCHANGED <<now, KeyGenerator, reqHeader, unitVars>>

\* with no entry, the transport's 304 is handed to the caller as it came
DoFinish_NotModifiedAsIs(p, setOk) ==
    /\ call[p].pc = "finish"
    /\ LET c  == call[p]
           cs == [c EXCEPT !.ops = Append(@, "Set")]
       IN
       IF c.resp.StatusCode = StatusNotModified
       THEN IF c.entry = NoEntry
            THEN /\ call' = [call EXCEPT ![p] =
                       Deferred([c EXCEPT !.ret = c.resp, !.pc = "done"])]
                 /\ UNCHANGED data
            ELSE /\ data' = write(c.key, c.entry, setOk)
                 /\ call' = [call EXCEPT ![p] =
                       Deferred([cs EXCEPT !.set = IF setOk THEN "ok" ELSE "err",
                                  !.ret = NotModifiedResponse(c.resp, c.entry),
                                  !.pc = "done",
                                  !.events = IF setOk THEN @
                                             ELSE Append(@, ErrorEvent(c, ErrProviderSet))])]
       ELSE LET e == newEntry(c.resp) IN
            /\ data' = write(c.key, e, setOk)
            /\ call' = [call EXCEPT ![p] =
                  IF setOk
                  THEN Deferred([cs EXCEPT !.set = "ok", !.ret = asHttpResponse(e),
                                       !.pc = "done"])
                  ELSE Deferred([cs EXCEPT !.set = "err", !.err = ErrStore, !.pc = "done",
                                       !.events = Append(@, ErrorEvent(c, ErrStore))])]
    /\ UNCHANGED <<now, KeyGenerator, reqHeader, unitVars>>

\* a response with an error status is handed back without being stored
DoFinish_ErrorStatusNotStored(p, setOk) ==
    /\ call[p].pc = "finish"
    /\ LET c  == call[p]
           cs == [c EXCEPT !.ops = Append(@, "Set")]
       IN
       IF c.resp.StatusCode = StatusNotModified
       THEN IF c.entry = NoEntry
            THEN /\ call' = [call EXCEPT ![p] =
                       Deferred([c EXCEPT !.err = ErrNoCachedEntry, !.pc = "done",
                                 !.events = Append(@, ErrorEvent(c, ErrNoCachedEntry))])]
                 /\ UNCHANGED data
            ELSE /\ data' = write(c.key, c.entry, setOk)
                 /\ call' = [call EXCEPT ![p] =
                       Deferred([cs EXCEPT !.set = IF setOk THEN "ok" ELSE "err",
                                  !.ret = NotModifiedResponse(c.resp, c.entry),
                                  !.pc = "done",
                                  !.events = IF setOk THEN @
                                             ELSE Append(@, ErrorEvent(c, ErrProviderSet))])]
       ELSE IF c.resp.StatusCode >= 400
       THEN /\ call' = [call EXCEPT ![p] =
                  Deferred([c EXCEPT !.ret = asHttpResponse(newEntry(c.resp)), !.pc = "done"])]
            /\ UNCHANGED data
       ELSE LET e == newEntry(c.resp) IN
            /\ data' = write(c.key, e, setOk)
            /\ call' = [call EXCEPT ![p] =
                  IF setOk
                  THEN Deferred([cs EXCEPT !.set = "ok", !.ret = asHttpResponse(e),
                                       !.pc = "done"])
                  ELSE Deferred([cs EXCEPT !.set = "err", !.err = ErrStore, !.pc = "done",
                                       !.events = Append(@, ErrorEvent(c, ErrStore))])]
    /\ UNCHANGED <<now, KeyGenerator, reqHeader, unitVars>>

\* Do after the transport's answer: the 304 path, or store()
DoFinish(p, setOk) ==
    /\ call[p].pc = "finish"
    /\ LET c  == call[p]
           cs == [c EXCEPT !.ops = Append(@, "Set")]
       IN
       IF c.resp.StatusCode = StatusNotModified
       THEN IF c.entry = NoEntry
            THEN /\ call' = [call EXCEPT ![p] =
                       Deferred([c EXCEPT !.err = ErrNoCachedEntry, !.pc = "done",
                                 !.events = Append(@, ErrorEvent(c, ErrNoCachedEntry))])]
                 /\ UNCHANGED data
            ELSE /\ data' = write(c.key, c.entry, setOk)
                 /\ call' = [call EXCEPT ![p] =
                       Deferred([cs EXCEPT !.set = IF setOk THEN "ok" ELSE "err",
                                  !.ret = NotModifiedResponse(c.resp, c.entry),
                                  !.pc = "done",
                                  !.events = IF setOk THEN @
                                             ELSE Append(@, ErrorEvent(c, ErrProviderSet))])]
       ELSE LET e == newEntry(c.resp) IN
            /\ data' = write(c.key, e, setOk)
            /\ call' = [call EXCEPT ![p] =
                  IF setOk
                  THEN Deferred([cs EXCEPT !.set = "ok", !.ret = asHttpResponse(e),
                                       !.pc = "done"])
                  ELSE Deferred([cs EXCEPT !.set = "err", !.err = ErrStore, !.pc = "done",
                                       !.events = Append(@, ErrorEvent(c, ErrStore))])]
    /\ UNCHANGED <<now, KeyGenerator, reqHeader, unitVars>>

\* the caller takes what Do returned
Return(p) ==
    /\ call[p].pc = "done"
    /\ call' = [call EXCEPT ![p] = IdleCall]
    /\ UNCHANGED <<now, data, KeyGenerator, reqHeader, unitVars>>

---------------------------------------------------------------------------
(* The environment *)

\* time passes
Tick ==
    /\ now < MaxTime
    /\ now' = now + 1
    /\ UNCHANGED <<data, KeyGenerator, reqHeader, call, unitVars>>

\* the caller builds a new request in place of r (http.NewRequest)
NewRequest(r) ==
    /\ \A q \in Procs : call[q].req # r
    /\ reqHeader[r] # EmptyHeader
    /\ reqHeader' = [reqHeader EXCEPT ![r] = EmptyHeader]
    /\ UNCHANGED <<now, data, KeyGenerator, call, unitVars>>

\* another user of the storage leaves bytes under k that are no entry
Corrupt(k) ==
    /\ data[k] # Garbage
    /\ data' = [data EXCEPT ![k] = Garbage]
    /\ UNCHANGED <<now, KeyGenerator, reqHeader, call, unitVars>>

---------------------------------------------------------------------------
(* Contexts: context.WithValue and ctx.Value under the three flag keys *)

contextKeyIgnoreExpired == "contextKeyIgnoreExpired"

contextKeyIgnoreCache == "contextKeyIgnoreCache"

contextKeyOnlyCached == "contextKeyOnlyCached"

\* a context is 0, the context the caller starts from, on which no flag was
\* ever set, or the index in h of a value derived by WithValue:
\* h[id] = [parent, key, val].  What ctx.Value returns: nil, or a boolean
NilValue == [nil |-> TRUE, bool |-> FALSE]

BoolValue(b) == [nil |-> FALSE, bool |-> b]

\* a lookup that stops at the nearest derivation, whatever its key
Value_AnyKey(h, id, k) ==
    IF id = 0 THEN NilValue ELSE BoolValue(h[id].val)

RECURSIVE Value(_, _, _)
\* ctx.Value(k): the value of the nearest derivation under key k, from the
\* context itself up through its parents
Value(h, id, k) ==
    IF id = 0 THEN NilValue
    ELSE IF h[id].key = k THEN BoolValue(h[id].val)
    ELSE Value(h, h[id].parent, k)

\* what the three readers find in context id: v == nil reads false,
\* otherwise v.(bool)
Flags(h, id) ==
    [ignoreExpired |-> LET v == Value(h, id, contextKeyIgnoreExpired)
                       IN  IF v.nil THEN FALSE ELSE v.bool,
     ignoreCache   |-> LET v == Value(h, id, contextKeyIgnoreCache)
                       IN  IF v.nil THEN FALSE ELSE v.bool,
     onlyCached    |-> LET v == Value(h, id, contextKeyOnlyCached)
                       IN  IF v.nil THEN FALSE ELSE v.bool]

\* context.WithValue(parent, k, v): a new context that points to its parent
WithValue(parent, k, v) ==
    /\ Len(contexts) < MaxCtx
    /\ parent \in 0..Len(contexts)
    /\ contexts' = Append(contexts, [parent |-> parent, key |-> k, val |-> v])
    /\ UNCHANGED <<now, data, KeyGenerator, reqHeader, call, mem, history>>

WithIgnoreExpired(parent, shouldIgnore) ==
    WithValue(parent, contextKeyIgnoreExpired, shouldIgnore)

WithIgnoreCache(parent, shouldIgnore) ==
    WithValue(parent, contextKeyIgnoreCache, shouldIgnore)

WithOnlyCached(parent, shouldOnly) ==
    WithValue(parent, contextKeyOnlyCached, shouldOnly)

---------------------------------------------------------------------------
(* MemoryProvider, used on its own *)

ProviderKeys == {"k1", "k2"}

\* a byte slice: nil, or the bytes of a text
NilSlice == [nil |-> TRUE, bytes |-> ""]

Bytes(t) == [nil |-> FALSE, bytes |-> t]

\* the byte slices given to Set: two texts, the empty slice and nil
ProviderValues == {Bytes("v1"), Bytes("v2"), Bytes(""), NilSlice}

\* the map of New(), and the nil map of a MemoryProvider that New did not
\* make
NewMap == [k \in {} |-> NilSlice]

NilMap == [nil |-> TRUE]

ErrNotInitialized == "memory provider is not initialized"

\* a key that is not in the map is an error
Get_AbsentIsError(m, k) ==
    IF m = NilMap THEN [value |-> NilSlice, err |-> ErrNotInitialized]
    ELSE IF k \notin DOMAIN m THEN [value |-> NilSlice, err |-> "not found"]
    ELSE [value |-> m[k], err |-> NoError]

\* MemoryProvider.Get
Get(m, k) ==
    IF m = NilMap THEN [value |-> NilSlice, err |-> ErrNotInitialized]
    ELSE IF k \notin DOMAIN m THEN [value |-> NilSlice, err |-> NoError]
    ELSE [value |-> m[k], err |-> NoError]

\* MemoryProvider.Set: the map afterwards, and the error
Set(m, k, v) ==
    IF m = NilMap THEN [data |-> m, err |-> ErrNotInitialized]
    ELSE [data |-> [x \in DOMAIN m \cup {k} |-> IF x = k THEN v ELSE m[x]],
          err  |-> NoError]

\* a call of Get on the provider
ProviderGet(k) ==
    /\ Len(history) < MaxOps
    /\ LET g == Get(mem, k) IN
       history' = Append(history, [op |-> "Get", key |-> k, value |-> g.value,
                                   err |-> g.err])
    /\ UNCHANGED <<now, data, KeyGenerator, reqHeader, call, contexts, mem>>

\* a call of Set on the provider
ProviderSet(k, v) ==
    /\ Len(history) < MaxOps
    /\ LET st == Set(mem, k, v) IN
       /\ mem' = st.data
       /\ history' = Append(history, [op |-> "Set", key |-> k, value |-> v,
                                      err |-> st.err])
    /\ UNCHANGED <<now, data, KeyGenerator, reqHeader, call, contexts>>

---------------------------------------------------------------------------
(* The specification *)

\* cache.New(memoryprovider.New()), with or without a key generator
Init ==
    /\ now = 0
    /\ data = [k \in Keys |-> NilBytes]
    /\ KeyGenerator \in {"nil", "const"}
    /\ reqHeader = [r \in Reqs |-> EmptyHeader]
    /\ call = [p \in Procs |-> IdleCall]
    /\ contexts = <<>>
    /\ mem = NewMap
    /\ history = <<>>

Next ==
    \/ \E p \in SeqProcs, r \in Reqs, ctx \in Ctxs, getOk \in BOOLEAN :
          DoStart(p, r, ctx, getOk)
    \/ \E p \in SeqProcs, reply \in AllReplies \cup {TransportError} : DoDispatch(p, reply)
    \/ \E p \in SeqProcs, setOk \in BOOLEAN : DoFinish(p, setOk)
    \/ \E p \in SeqProcs : Return(p)
    \/ Tick
    \/ \E r \in Reqs : NewRequest(r)
    \/ \E k \in Keys : Corrupt(k)

Spec == Init /\ [][Next]_vars

---------------------------------------------------------------------------
(* Concurrent callers on a Cache over the memory provider *)

\* the call at "finish" is about to call provider.Set
WillSet(c) ==
    /\ c.pc = "finish"
    /\ ~(c.resp.StatusCode = StatusNotModified /\ c.entry = NoEntry)

\* the call record when Do returns after a provider.Set that reported no
\* error
AfterSet(c) ==
    LET cs == [c EXCEPT !.ops = Append(@, "Set")] IN
    IF c.resp.StatusCode = StatusNotModified
    THEN Deferred([cs EXCEPT !.set = "ok",
                             !.ret = NotModifiedResponse(c.resp, c.entry),
                             !.pc = "done"])
    ELSE Deferred([cs EXCEPT !.set = "ok",
                             !.ret = asHttpResponse(newEntry(c.resp)),
                             !.pc = "done"])

\* the runtime's "fatal error: concurrent map writes" (or "concurrent map
\* read and map write"): the process ends, no call returns
Crashed == [p \in Procs |-> [call[p] EXCEPT !.pc = "crashed"]]

RaceOutcomes == {"fatal", "torn"}

\* the Set calls of p and q overlap.  MemoryProvider.Set assigns to a Go
\* map with no lock, so the two assignments are a data race: the runtime
\* ends the process, or the map is left holding, under the keys written,
\* bytes that neither call wrote.  (The outcomes in which one assignment
\* follows the other are those of two DoFinish steps.)
SetSetRace(p, q, outcome) ==
    /\ p # q
    /\ WillSet(call[p])
    /\ WillSet(call[q])
    /\ outcome \in RaceOutcomes
    /\ IF outcome = "fatal"
       THEN /\ call' = Crashed
            /\ UNCHANGED data
       ELSE /\ call' = [call EXCEPT ![p] = AfterSet(call[p]), ![q] = AfterSet(call[q])]
            /\ data' = [data EXCEPT ![call[p].key] = Garbage, ![call[q].key] = Garbage]
    /\ UNCHANGED <<now, KeyGenerator, reqHeader, unitVars>>

\* the Get of a call that p begins overlaps the Set of q: a read of the
\* map during an assignment to it, which the runtime answers by ending the
\* process.  (A Get that is over before the Set begins, or begins after it
\* is over, is a DoStart step before or after a DoFinish step.)
GetSetRace(p, q, r, ctx) ==
    /\ p # q
    /\ call[p].pc = "idle"
    /\ \A x \in Procs : call[x].req # r
    /\ ReqMethod(r) = MethodGet
    /\ ~IgnoreCache(ctx)
    /\ WillSet(call[q])
    /\ call' = Crashed
    /\ UNCHANGED <<now, data, KeyGenerator, reqHeader, unitVars>>

\* the contexts and requests of the concurrent callers
ConcCtxs == {Background}

ConcReqs == {"rq1", "rq2"}

NextConc ==
    \/ \E p \in Procs, r \in ConcReqs, ctx \in ConcCtxs : DoStart(p, r, ctx, TRUE)
    \/ \E p \in Procs, reply \in AllReplies \cup {TransportError} : DoDispatch(p, reply)
    \/ \E p \in Procs : DoFinish(p, TRUE)
    \/ \E p \in Procs : Return(p)
    \/ \E p, q \in Procs, outcome \in RaceOutcomes : SetSetRace(p, q, outcome)
    \/ \E p, q \in Procs, r \in ConcReqs, ctx \in ConcCtxs : GetSetRace(p, q, r, ctx)
    \/ Tick

SpecConc == Init /\ [][NextConc]_vars

---------------------------------------------------------------------------
(* The parts of the library that are exercised on their own *)

\* a caller derives contexts
NextCtx ==
    \/ \E parent \in 0..MaxCtx, b \in BOOLEAN : WithIgnoreExpired(parent, b)
    \/ \E parent \in 0..MaxCtx, b \in BOOLEAN : WithIgnoreCache(parent, b)
    \/ \E parent \in 0..MaxCtx, b \in BOOLEAN : WithOnlyCached(parent, b)

SpecCtx == Init /\ [][NextCtx]_vars

\* a caller uses a memory provider: New(), or a MemoryProvider that New did
\* not make (TestMemoryProvider_NilProvider)
InitProvider ==
    /\ now = 0
    /\ data = [k \in Keys |-> NilBytes]
    /\ KeyGenerator = "nil"
    /\ reqHeader = [r \in Reqs |-> EmptyHeader]
    /\ call = [p \in Procs |-> IdleCall]
    /\ contexts = <<>>
    /\ mem \in {NewMap, NilMap}
    /\ history = <<>>

NextProvider ==
    \/ \E k \in ProviderKeys : ProviderGet(k)
    \/ \E k \in ProviderKeys, v \in ProviderValues : ProviderSet(k, v)

SpecProvider == InitProvider /\ [][NextProvider]_vars

---------------------------------------------------------------------------
(* What the claims speak of, read from the state *)

GetCtx(ie, ic, oc) == [ignoreExpired |-> ie, ignoreCache |-> ic, onlyCached |-> oc]

\* resp carries the status, the body and the headers of the entry the
\* bytes v hold
IsResponseOf(resp, v) ==
    /\ resp # NoResp
    /\ v.fmt = "json"
    /\ resp.StatusCode = v.status_code
    /\ <<"base64", resp.Body>> = v.data
    /\ DOMAIN resp.Header = DOMAIN v.headers
    /\ \A n \in DOMAIN resp.Header : resp.Header[n] = <<v.headers[n]>>

IsStoredResponse(resp, k) == IsResponseOf(resp, data[k])

\* the bytes v are the entry store() builds from resp at time t
IsEntryFrom(v, resp, t) ==
    /\ v.fmt = "json"
    /\ v.ts = t
    /\ v.status_code = resp.StatusCode
    /\ v.data = <<"base64", resp.Body>>
    /\ DOMAIN v.headers = DOMAIN resp.Header
    /\ \A n \in DOMAIN resp.Header : v.headers[n] = resp.Header[n][1]

IsStoredFrom(k, resp, t) == IsEntryFrom(data[k], resp, t)

\* in this step p calls Do with a GET
StartsGet(p) ==
    /\ call[p].pc = "idle"
    /\ call'[p].pc # "idle"
    /\ ReqMethod(call'[p].req) = "GET"

\* p is in a call of Do with a GET
InGet(p) == call[p].pc # "idle" /\ ReqMethod(call[p].req) = "GET"

\* Do returned to p in this step
Returns(p) == call[p].pc # "done" /\ call'[p].pc = "done"

---------------------------------------------------------------------------
(* C1 *)

\* C1: a GET with no flags whose key holds an entry that is fresh when it is
\* read returns that entry's status and body, with no error, without a call
\* of the transport and without a change of the storage, so that any number
\* of such calls in a row leave the transport's call count as it was.
C1_IdempotentHit ==
    [][\A p \in Procs :
         (/\ StartsGet(p)
          /\ call'[p].ctx = Background
          /\ call'[p].get = "ok"
          /\ StoredFresh(call'[p].key))
         => (/\ call'[p].pc = "done"
             /\ call'[p].err = NoError
             /\ IsStoredResponse(call'[p].ret, call'[p].key)
             /\ call'[p].transportCalls = 0
             /\ call'[p].stat = "hit"
             /\ data' = data)]_vars

\* C1's case: a call without flags has returned a hit
C1_Witness ==
    \E p \in Procs :
        /\ call[p].pc = "done"
        /\ call[p].ctx = Background
        /\ call[p].stat = "hit"
        /\ call[p].ret # NoResp
        /\ call[p].ret.Body = "Hello World"
        /\ call[p].transportCalls = 0

---------------------------------------------------------------------------
(* C2 *)

\* C2, as stated: every GET whose context has ignoreCache set has made
\* exactly one call of the transport when Do returns, whatever the stored
\* entry and whatever the other two flags.
C2_Original ==
    \A p \in Procs :
        (InGet(p) /\ call[p].pc = "done" /\ call[p].ctx.ignoreCache)
        => call[p].transportCalls = 1

\* C2, amended: a GET with ignoreCache set and onlyCached not set goes to
\* the transport without reading the storage and calls it exactly once,
\* whatever is stored and whatever ignoreExpired; with onlyCached set as
\* well, Do returns without a call of the transport.
C2_IgnoreCacheForcesFetch ==
    \A p \in Procs :
        (InGet(p) /\ call[p].ctx.ignoreCache)
        => IF call[p].ctx.onlyCached
           THEN call[p].pc = "done" /\ call[p].transportCalls = 0
           ELSE /\ call[p].get = "none"
                /\ \/ call[p].pc = "dispatch" /\ call[p].transportCalls = 0
                   \/ call[p].pc \in {"finish", "done"} /\ call[p].transportCalls = 1

\* C2's case: a GET with ignoreCache has returned after its call of the
\* transport, a fresh entry being stored under its key when it began
C2_Witness ==
    \E p \in Procs :
        /\ InGet(p)
        /\ call[p].pc = "done"
        /\ call[p].ctx = GetCtx(TRUE, TRUE, FALSE)
        /\ call[p].held = "fresh"
        /\ call[p].err = NoError
        /\ call[p].transportCalls = 1

---------------------------------------------------------------------------
(* C3 *)

---------------------------------------------------------------------------
(* C4 *)

IgnoreExpiredOnly == GetCtx(TRUE, FALSE, FALSE)

\* C4: for a GET with ignoreExpired set and no other flag, (a) when the key
\* holds an expired entry Do returns that entry, with no call of the
\* transport and no change of the storage; (b) when the key holds nothing Do
\* goes to the transport with no entry, has called it exactly once when it
\* returns, and stores a response that is no 304 when provider.Set succeeds;
\* (c) such a call on a key that holds an entry, fresh or expired, never
\* calls the transport, so the call repeated after (b) makes none.
C4_IgnoreExpiredServesStale ==
    [][\A p \in Procs :
         /\ (/\ StartsGet(p)
             /\ call'[p].ctx = IgnoreExpiredOnly
             /\ call'[p].get = "ok"
             /\ StoredExpired(call'[p].key))
            => (/\ call'[p].pc = "done"
                /\ call'[p].err = NoError
                /\ IsStoredResponse(call'[p].ret, call'[p].key)
                /\ call'[p].transportCalls = 0
                /\ call'[p].set = "none"
                /\ data' = data)
         /\ (/\ StartsGet(p)
             /\ call'[p].ctx = IgnoreExpiredOnly
             /\ call'[p].get = "ok"
             /\ data[call'[p].key] = NilBytes)
            => (/\ call'[p].pc = "dispatch"
                /\ call'[p].entry = NoEntry
                /\ call'[p].transportCalls = 0)
         /\ (/\ call[p].pc = "dispatch"
             /\ InGet(p)
             /\ call[p].ctx = IgnoreExpiredOnly
             /\ call'[p] # call[p])
            => (/\ call[p].entry = NoEntry
                /\ call'[p].transportCalls = 1
                /\ call'[p].pc \in {"finish", "done"})
         /\ (/\ call[p].pc = "finish"
             /\ InGet(p)
             /\ call[p].ctx = IgnoreExpiredOnly
             /\ Returns(p))
            => (/\ call'[p].transportCalls = 1
                /\ (call[p].resp.StatusCode # 304 /\ call'[p].set = "ok")
                      => IsEntryFrom(data'[call[p].key], call[p].resp, now))
         /\ (/\ StartsGet(p)
             /\ call'[p].ctx = IgnoreExpiredOnly
             /\ call'[p].get = "ok"
             /\ StoredEntry(call'[p].key))
            => (/\ call'[p].pc = "done"
                /\ call'[p].transportCalls = 0
                /\ data' = data)]_vars

\* C4's case: a call with ignoreExpired alone has returned an expired entry
\* without a call of the transport
C4_Witness ==
    \E p \in Procs :
        /\ InGet(p)
        /\ call[p].pc = "done"
        /\ call[p].ctx = IgnoreExpiredOnly
        /\ call[p].held = "expired"
        /\ call[p].stat = "ignored_expiry"
        /\ call[p].ret # NoResp
        /\ call[p].transportCalls = 0

---------------------------------------------------------------------------
(* C5 *)

\* C5: a GET with onlyCached set on a key under which nothing is stored
\* returns ErrCacheMiss and no response, without a call of the transport and
\* without a change of the storage (the provider's Get, when Do calls it,
\* answering without error).
C5_OnlyCachedMissFails ==
    [][\A p \in Procs :
         (/\ StartsGet(p)
          /\ call'[p].ctx.onlyCached
          /\ call'[p].get # "err"
          /\ data[call'[p].key] = NilBytes)
         => (/\ call'[p].pc = "done"
             /\ call'[p].err = ErrCacheMiss
             /\ call'[p].ret = NoResp
             /\ call'[p].transportCalls = 0
             /\ call'[p].set = "none"
             /\ data' = data)]_vars

\* C5's case: a call with onlyCached alone has failed with ErrCacheMiss on a
\* key that holds nothing
C5_Witness ==
    \E p \in Procs :
        /\ InGet(p)
        /\ call[p].pc = "done"
        /\ call[p].ctx = GetCtx(FALSE, FALSE, TRUE)
        /\ call[p].held = "absent"
        /\ call[p].get = "ok"
        /\ call[p].err = ErrCacheMiss
        /\ call[p].ret = NoResp

---------------------------------------------------------------------------
(* C6 *)

\* C6, as stated: every GET with onlyCached set returns without a call of
\* the transport, and when the key holds an entry, fresh or expired, it
\* returns that entry's response.
C6_Original ==
    [][\A p \in Procs :
         (/\ StartsGet(p)
          /\ call'[p].ctx.onlyCached
          /\ call'[p].get # "err")
         => (/\ call'[p].pc = "done"
             /\ call'[p].transportCalls = 0
             /\ StoredEntry(call'[p].key)
                   => (/\ call'[p].err = NoError
                       /\ IsStoredResponse(call'[p].ret, call'[p].key)))]_vars

\* C6, amended: every GET with onlyCached set returns without a call of the
\* transport and without a change of the storage; when the key holds an
\* entry, fresh or expired, and ignoreCache is not set, Do returns that
\* entry's response instead of revalidating it.
C6_OnlyCachedNeverFetches ==
    [][\A p \in Procs :
         (/\ StartsGet(p)
          /\ call'[p].ctx.onlyCached)
         => (/\ call'[p].pc = "done"
             /\ call'[p].transportCalls = 0
             /\ data' = data
             /\ (/\ StoredEntry(call'[p].key)
                 /\ ~call'[p].ctx.ignoreCache
                 /\ call'[p].get = "ok")
                   => (/\ call'[p].err = NoError
                       /\ IsStoredResponse(call'[p].ret, call'[p].key)))]_vars

\* C6's case: a call with onlyCached alone has returned an expired entry
\* without a call of the transport
C6_Witness ==
    \E p \in Procs :
        /\ InGet(p)
        /\ call[p].pc = "done"
        /\ call[p].ctx = GetCtx(FALSE, FALSE, TRUE)
        /\ call[p].held = "expired"
        /\ call[p].stat = "ignored_check"
        /\ call[p].err = NoError
        /\ call[p].ret # NoResp
        /\ call[p].ret.StatusCode = call[p].entry.StatusCode
        /\ call[p].transportCalls = 0

---------------------------------------------------------------------------
(* C7 *)

\* C7, as stated: Do returns ErrCacheMiss only when onlyCached is set and no
\* entry is stored under the key; a GET with onlyCached on a key that holds
\* an entry never returns ErrCacheMiss, whatever the other flags.
C7_Original ==
    [][\A p \in Procs :
         (Returns(p) /\ call'[p].err = ErrCacheMiss)
         => (/\ call'[p].ctx.onlyCached
             /\ ~StoredEntry(call'[p].key))]_vars

\* C7, amended: Do returns ErrCacheMiss only when onlyCached is set and the
\* call obtained no entry for the key, because nothing or bytes that are no
\* entry are stored under it or because ignoreCache is set and the storage
\* is not read; a GET with onlyCached and without ignoreCache on a key that
\* holds an entry never returns ErrCacheMiss, whatever ignoreExpired.
C7_ErrCacheMissOnlyWhen ==
    [][\A p \in Procs :
         /\ (Returns(p) /\ call'[p].err = ErrCacheMiss)
            => (/\ call[p].pc = "idle"
                /\ InGet(p)'
                /\ call'[p].ctx.onlyCached
                /\ call'[p].entry = NoEntry
                /\ call'[p].ctx.ignoreCache \/ ~StoredEntry(call'[p].key))
         /\ (/\ StartsGet(p)
             /\ call'[p].ctx.onlyCached
             /\ ~call'[p].ctx.ignoreCache
             /\ StoredEntry(call'[p].key))
            => call'[p].err # ErrCacheMiss]_vars

\* C7's case: a call with onlyCached and ignoreExpired has returned an
\* entry, and not ErrCacheMiss, on a key that holds one
C7_Witness ==
    \E p \in Procs :
        /\ InGet(p)
        /\ call[p].pc = "done"
        /\ call[p].ctx = GetCtx(TRUE, FALSE, TRUE)
        /\ call[p].held \in {"fresh", "expired"}
        /\ call[p].get = "ok"
        /\ call[p].err = NoError
        /\ call[p].ret # NoResp

---------------------------------------------------------------------------
(* C8 *)

\* the names under which the header map h holds an ETag that is not empty
\* (the names of HTTP headers do not depend on case)
ETagNames(h) ==
    {n \in DOMAIN h : CanonicalMIMEHeaderKey(n) = CanonicalMIMEHeaderKey("ETag") /\ h[n] # ""}

\* the stored entry under k has an ETag that is not empty
StoredETag(k) == StoredEntry(k) /\ ETagNames(data[k].headers) # {}

\* C8: when a GET goes to the transport after reading a stored entry whose
\* headers carry an ETag that is not empty (a revalidation), the request
\* the transport receives carries If-None-Match with exactly the stored
\* ETag; when the entry has no ETag or an empty one, or no entry was read,
\* Do leaves the request's headers as they were.
C8_ETagRoundTrip ==
    [][\A p \in Procs :
         /\ (StartsGet(p) /\ call'[p].pc = "dispatch")
            => IF call'[p].get = "ok" /\ StoredETag(call'[p].key)
               THEN /\ call'[p].stat = "expired"
                    /\ \E n \in ETagNames(data[call'[p].key].headers) :
                          reqHeader'[call'[p].req] =
                             Hdr1("If-None-Match", data[call'[p].key].headers[n])
               ELSE reqHeader'[call'[p].req] = reqHeader[call'[p].req]
         /\ (call[p].pc = "dispatch" /\ call'[p] # call[p])
            => (/\ reqHeader' = reqHeader
                /\ call'[p].transportCalls = 1)]_vars

---------------------------------------------------------------------------
(* C9 *)

\* C9: when an expired entry is revalidated and the transport answers 304
\* with an empty body, Do returns, with no error, a response whose status is
\* 304 and whose body is the body of the entry it read from the storage.
C9_NotModifiedReconciliation ==
    \A p \in Procs :
        (/\ InGet(p)
         /\ call[p].pc = "done"
         /\ call[p].stat = "expired"
         /\ call[p].resp # NoResp
         /\ call[p].resp.StatusCode = 304
         /\ call[p].resp.Body = "")
        => (/\ call[p].err = NoError
            /\ call[p].ret # NoResp
            /\ call[p].ret.StatusCode = 304
            /\ call[p].entry # NoEntry
            /\ call[p].ret.Body = call[p].entry.Data
            /\ (call[p].set = "ok" /\ StoredEntry(call[p].key))
                  => <<"base64", call[p].ret.Body>> = data[call[p].key].data)

\* C9's case: a revalidation answered by 304 has returned the stored body
C9_Witness ==
    \E p \in Procs :
        /\ InGet(p)
        /\ call[p].pc = "done"
        /\ call[p].stat = "expired"
        /\ call[p].held = "expired"
        /\ call[p].resp # NoResp
        /\ call[p].resp.StatusCode = 304
        /\ call[p].resp.Body = ""
        /\ call[p].ret # NoResp
        /\ call[p].ret.StatusCode = 304
        /\ call[p].ret.Body = "Hello World"

---------------------------------------------------------------------------
(* C10 *)

\* the key the claim gives for request r
ClaimedKey(r) == IF KeyGenerator = "nil" THEN ReqURL(r) ELSE "foo"

\* C10: the key of a GET is the generator's result when one is configured
\* and the request's URL otherwise; the response a call fetches is stored
\* under that key and no other; and with a constant generator a GET without
\* flags for either URL is served, with no call of the transport, from the
\* fresh entry stored under the one key, whichever URL it was fetched for.
C10_KeyDerivation ==
    [][\A p \in Procs :
         /\ StartsGet(p) => call'[p].key = ClaimedKey(call'[p].req)
         /\ (/\ call[p].pc = "finish"
             /\ Returns(p)
             /\ InGet(p)
             /\ call[p].resp.StatusCode # 304
             /\ call'[p].set = "ok")
            => (/\ IsEntryFrom(data'[ClaimedKey(call[p].req)], call[p].resp, now)
                /\ \A k \in Keys \ {ClaimedKey(call[p].req)} : data'[k] = data[k])
         /\ (/\ StartsGet(p)
             /\ KeyGenerator = "const"
             /\ call'[p].ctx = Background
             /\ call'[p].get = "ok"
             /\ StoredFresh("foo"))
            => (/\ call'[p].pc = "done"
                /\ call'[p].err = NoError
                /\ call'[p].transportCalls = 0
                /\ IsStoredResponse(call'[p].ret, "foo"))]_vars

\* C10's case: with a constant generator, a GET for u2 has been served,
\* with no call of the transport, the body that only u1's transport gives
C10_Witness ==
    \E p \in Procs :
        /\ KeyGenerator = "const"
        /\ call[p].pc = "done"
        /\ call[p].req = "rq2"
        /\ ReqURL(call[p].req) = "u2"
        /\ call[p].ctx = Background
        /\ call[p].stat = "hit"
        /\ call[p].transportCalls = 0
        /\ call[p].ret # NoResp
        /\ call[p].ret.Body = "Hello World"

---------------------------------------------------------------------------
(* C11 *)

\* p is in a call of Do with a method other than GET
InNonGet(p) == call[p].pc # "idle" /\ ReqMethod(call[p].req) # "GET"

\* C11: for a request whose method is not GET, whatever the flags and
\* whatever is stored, Do goes straight to the transport with the request's
\* headers as they were, calls it exactly once, and returns what it
\* answered: its response with no error, or its error with no response.  The
\* call makes no provider.Get and no provider.Set, and the storage and the
\* request are as before.
C11_NonGetBypass ==
    [][\A p \in Procs :
         /\ (call[p].pc = "idle" /\ InNonGet(p)')
            => (/\ call'[p].pc = "dispatch"
                /\ call'[p].transportCalls = 0
                /\ call'[p].get = "none"
                /\ call'[p].entry = NoEntry
                /\ reqHeader' = reqHeader
                /\ data' = data)
         /\ (InNonGet(p) /\ call[p].pc = "dispatch" /\ call'[p] # call[p])
            => (/\ call'[p].pc = "done"
                /\ call'[p].transportCalls = 1
                /\ call'[p].get = "none"
                /\ call'[p].set = "none"
                /\ \/ /\ call'[p].err = NoError
                      /\ call'[p].ret \in Replies(ReqURL(call[p].req))
                   \/ /\ call'[p].err = ErrTransport
                      /\ call'[p].ret = NoResp
                /\ reqHeader' = reqHeader
                /\ data' = data)
         /\ InNonGet(p) => call[p].pc \in {"dispatch", "done"}]_vars

\* C11's case: a POST with every flag set, on a URL whose key holds an
\* entry, has returned the transport's 304 as it came
C11_Witness ==
    \E p \in Procs :
        /\ InNonGet(p)
        /\ call[p].pc = "done"
        /\ call[p].ctx = GetCtx(TRUE, TRUE, TRUE)
        /\ StoredEntry(ReqURL(call[p].req))
        /\ KeyGenerator = "nil"
        /\ call[p].transportCalls = 1
        /\ call[p].err = NoError
        /\ call[p].ret = [StatusCode |-> 304, Body |-> "", Header |-> EmptyHeader]

---------------------------------------------------------------------------
(* C12 *)

IgnoreCacheAndExpired == GetCtx(TRUE, TRUE, FALSE)

---------------------------------------------------------------------------
(* C13 *)

\* the stored entry under k has no Expires header, or one whose value is
\* not the text of a date
StoredUndated(k) ==
    /\ StoredEntry(k)
    /\ \/ "Expires" \notin DOMAIN data[k].headers
       \/ \A i \in DOMAIN DateText : DateText[i] # data[k].headers["Expires"]

\* C13: an entry whose headers lack Expires, or whose Expires is not an
\* RFC1123 date, is expired at every time of the clock; a GET without flags
\* that reads such an entry is never answered from it: the call's outcome
\* is "expired", not "hit", nothing is returned before the transport is
\* called, and the call goes on to the transport.
C13_FailClosedFreshness ==
    [][\A p \in Procs :
         (/\ StartsGet(p)
          /\ call'[p].ctx = Background
          /\ call'[p].get = "ok"
          /\ StoredUndated(call'[p].key))
         => (/\ call'[p].entry # NoEntry
             /\ \A t \in 0..MaxTime : expired(call'[p].entry, t)
             /\ call'[p].stat = "expired"
             /\ call'[p].pc = "dispatch"
             /\ call'[p].ret = NoResp
             /\ call'[p].err = NoError
             /\ call'[p].transportCalls = 0)]_vars

\* C13's case: at time 0 a GET without flags has read an entry whose
\* Expires is no date, and is about to call the transport, while another
\* key holds an entry with no Expires at all
C13_Witness ==
    \E p \in Procs :
        /\ InGet(p)
        /\ now = 0
        /\ call[p].pc = "dispatch"
        /\ call[p].ctx = Background
        /\ call[p].stat = "expired"
        /\ call[p].entry # NoEntry
        /\ "Expires" \in DOMAIN call[p].entry.Headers
        /\ call[p].entry.Headers["Expires"] = "tomorrow"
        /\ \E k \in Keys : StoredEntry(k) /\ "Expires" \notin DOMAIN data[k].headers

---------------------------------------------------------------------------
(* C14 *)

\* C14: when provider.Get fails in a GET without ignoreCache, whatever the
\* other flags and whatever is stored, Do returns at once the error that
\* wraps the provider's, and no response; it has not called the transport
\* nor provider.Set, the storage and the request are as before, and the
\* call's outcome is not "miss" nor the error a miss gives with onlyCached.
C14_ReadFailureSurfaced ==
    [][\A p \in Procs :
         /\ (StartsGet(p) /\ call'[p].get = "err")
            => (/\ ~call'[p].ctx.ignoreCache
                /\ call'[p].pc = "done"
                /\ call'[p].err = ErrProviderGet
                /\ call'[p].err # ErrCacheMiss
                /\ call'[p].ret = NoResp
                /\ call'[p].entry = NoEntry
                /\ call'[p].stat # "miss"
                /\ call'[p].transportCalls = 0
                /\ call'[p].set = "none"
                /\ data' = data
                /\ reqHeader' = reqHeader)
         /\ (call[p].pc # "idle" /\ call'[p].pc # "idle")
            => call'[p].get = call[p].get]_vars

\* C14's case: provider.Get has failed in a call with onlyCached, on a key
\* that holds nothing, and Do has returned the provider's error
C14_Witness ==
    \E p \in Procs :
        /\ InGet(p)
        /\ call[p].pc = "done"
        /\ call[p].ctx = GetCtx(FALSE, FALSE, TRUE)
        /\ call[p].held = "absent"
        /\ call[p].get = "err"
        /\ call[p].err = ErrProviderGet
        /\ call[p].ret = NoResp
        /\ call[p].transportCalls = 0

---------------------------------------------------------------------------
(* C15 *)

\* C15, as stated: whenever provider.Set fails in a call of Do after the
\* transport has answered, on the full-fetch path or on the 304 path, Do
\* returns an error and no response.
C15_Original ==
    \A p \in Procs :
        (InGet(p) /\ call[p].pc = "done" /\ call[p].set = "err")
        => (call[p].err # NoError /\ call[p].ret = NoResp)

\* C15, amended: when provider.Set fails after the transport has answered
\* with a status other than 304, Do returns the error of store() and no
\* response; when it fails on the 304 path, Do returns the 304 response
\* with the entry's body and no error.  In both cases the storage is as it
\* was before the write.
C15_WriteFailure ==
    [][\A p \in Procs :
         (/\ InGet(p)
          /\ call[p].pc = "finish"
          /\ Returns(p)
          /\ call'[p].set = "err")
         => (/\ data' = data
             /\ call'[p].transportCalls = 1
             /\ IF call[p].resp.StatusCode # 304
                THEN /\ call'[p].err = ErrStore
                     /\ call'[p].err # NoError
                     /\ call'[p].ret = NoResp
                ELSE /\ call[p].entry # NoEntry
                     /\ call'[p].err = NoError
                     /\ call'[p].ret # NoResp
                     /\ call'[p].ret.StatusCode = 304
                     /\ call'[p].ret.Body = call[p].entry.Data)]_vars

\* C15's case: provider.Set has failed after a full fetch and Do has
\* returned the error and no response, the expired entry staying stored
C15_Witness ==
    \E p \in Procs :
        /\ InGet(p)
        /\ call[p].pc = "done"
        /\ call[p].set = "err"
        /\ call[p].resp # NoResp
        /\ call[p].resp.StatusCode = 200
        /\ call[p].err = ErrStore
        /\ call[p].ret = NoResp
        /\ call[p].held = "expired"
        /\ StoredExpired(call[p].key)

---------------------------------------------------------------------------
(* C16 *)

\* C16: when the transport fails on a GET, Do returns the error that wraps
\* the transport's, and no response, after exactly one call of the transport;
\* it does not call provider.Set, and no step of the call, from its
\* beginning to this return, changes the storage.
C16_TransportFailure ==
    [][\A p \in Procs :
         /\ (/\ InGet(p)
             /\ call[p].pc = "dispatch"
             /\ call'[p] # call[p]
             /\ call'[p].resp = NoResp)
            => (/\ call[p].transportCalls = 0
                /\ call'[p].transportCalls = 1
                /\ call'[p].pc = "done"
                /\ call'[p].err = ErrHttpDo
                /\ call'[p].ret = NoResp
                /\ call'[p].set = "none"
                /\ data' = data)
         /\ (Returns(p) /\ call'[p].err = ErrHttpDo)
            => (InGet(p) /\ call[p].pc = "dispatch")
         /\ StartsGet(p) => data' = data]_vars

\* C16's case: the transport has failed in the revalidation of an expired
\* entry, which is still stored
C16_Witness ==
    \E p \in Procs :
        /\ InGet(p)
        /\ call[p].pc = "done"
        /\ call[p].err = ErrHttpDo
        /\ call[p].ret = NoResp
        /\ call[p].transportCalls = 1
        /\ call[p].set = "none"
        /\ call[p].stat = "expired"
        /\ call[p].held = "expired"
        /\ call[p].entry # NoEntry
        /\ data[call[p].key] = Marshal(call[p].entry)

---------------------------------------------------------------------------
(* C17 *)

\* C17: when the transport answers 304 to a GET in which Do obtained no
\* entry for the key (nothing stored, bytes that are no entry, or the read
\* skipped by ignoreCache), Do returns an error and no response, does not
\* call provider.Set, and leaves the storage as it was.
C17_Inconsistent304 ==
    [][\A p \in Procs :
         /\ (/\ InGet(p)
             /\ call[p].pc = "finish"
             /\ call[p].resp.StatusCode = 304
             /\ call[p].entry = NoEntry
             /\ call'[p] # call[p])
            => (/\ call'[p].pc = "done"
                /\ call'[p].err = ErrNoCachedEntry
                /\ call'[p].err # NoError
                /\ call'[p].ret = NoResp
                /\ call'[p].set = "none"
                /\ data' = data)
         /\ (Returns(p) /\ call'[p].err = ErrNoCachedEntry)
            => (/\ call[p].pc = "finish"
                /\ call[p].resp.StatusCode = 304
                /\ call[p].entry = NoEntry)]_vars

\* C17's case: a 304 has answered a call that skipped the read of a key
\* that holds a fresh entry, and Do has returned the error
C17_Witness ==
    \E p \in Procs :
        /\ InGet(p)
        /\ call[p].pc = "done"
        /\ call[p].ctx.ignoreCache
        /\ call[p].held = "fresh"
        /\ call[p].resp # NoResp
        /\ call[p].resp.StatusCode = 304
        /\ call[p].entry = NoEntry
        /\ call[p].err = ErrNoCachedEntry
        /\ call[p].ret = NoResp
        /\ call[p].set = "none"
        /\ StoredFresh(call[p].key)

---------------------------------------------------------------------------
(* C18 *)

\* the call record after the first step of a GET that read the storage and
\* obtained no entry, h being what the storage held under the key
AfterMiss(r, ctx, k, h) ==
    Deferred([IdleCall EXCEPT
        !.req = r, !.ctx = ctx, !.key = k, !.held = h, !.get = "ok",
        !.ops = <<"Get">>,
        !.stat = IF ctx.onlyCached THEN "ignored_check" ELSE "miss",
        !.err = IF ctx.onlyCached THEN ErrCacheMiss ELSE NoError,
        !.pc = IF ctx.onlyCached THEN "done" ELSE "dispatch"])

\* C18: when the bytes stored under the key do not unmarshal into an entry,
\* a GET that reads them goes on exactly as one that finds nothing stored:
\* the two calls differ in no local variable, no corruption error is
\* returned (the only error of the read is the provider's own), and the
\* request and the storage are untouched by the read.  A GET without flags
\* therefore goes to the transport with no entry and, on an answer other
\* than 304 with provider.Set succeeding, puts a valid entry in place of
\* the bytes.
C18_MalformedAsAbsent ==
    [][\A p \in Procs :
         /\ (/\ StartsGet(p)
             /\ call'[p].get # "none"
             /\ Held(call'[p].key) \in {"absent", "malformed"})
            => (/\ reqHeader' = reqHeader
                /\ data' = data
                /\ IF call'[p].get = "err"
                   THEN call'[p].err = ErrProviderGet
                   ELSE call'[p] = AfterMiss(call'[p].req, call'[p].ctx,
                                             call'[p].key, Held(call'[p].key)))
         /\ (/\ InGet(p)
             /\ call[p].held = "malformed"
             /\ call[p].ctx = Background
             /\ call[p].pc = "finish"
             /\ Returns(p)
             /\ call[p].resp.StatusCode # 304
             /\ call'[p].set = "ok")
            => (/\ IsEntryFrom(data'[call[p].key], call[p].resp, now)
                /\ call'[p].err = NoError
                /\ IsResponseOf(call'[p].ret, data'[call[p].key]))]_vars

\* C18's case: a GET without flags that found bytes that are no entry has
\* fetched from the transport and stored a valid entry in their place
C18_Witness ==
    \E p \in Procs :
        /\ InGet(p)
        /\ call[p].pc = "done"
        /\ call[p].ctx = Background
        /\ call[p].held = "malformed"
        /\ call[p].stat = "miss"
        /\ call[p].transportCalls = 1
        /\ call[p].set = "ok"
        /\ call[p].err = NoError
        /\ call[p].ret # NoResp
        /\ call[p].ret.Body = "Hello World"
        /\ StoredEntry(call[p].key)
        /\ IsStoredResponse(call[p].ret, call[p].key)

---------------------------------------------------------------------------
(* C19 *)

---------------------------------------------------------------------------
(* C20 *)

\* p and q are two GETs without flags for the same key that both read the
\* storage while nothing was stored under it, and that the transport has
\* both answered with a response that is no 304
ConcurrentMisses(p, q) ==
    /\ p # q
    /\ InGet(p) /\ InGet(q)
    /\ call[p].ctx = Background /\ call[q].ctx = Background
    /\ call[p].key = call[q].key
    /\ call[p].held = "absent" /\ call[q].held = "absent"
    /\ call[p].stat = "miss" /\ call[q].stat = "miss"
    /\ call[p].transportCalls = 1 /\ call[q].transportCalls = 1
    /\ call[p].resp # NoResp /\ call[q].resp # NoResp
    /\ call[p].resp.StatusCode # 304 /\ call[q].resp.StatusCode # 304

\* C20: two concurrent GETs without flags for the same key that both read
\* the storage while nothing is stored each make their own call of the
\* transport and each write back their own entry: from the transport's
\* answer each call goes on to return after its own provider.Set, and when
\* the second of the two returns, the bytes stored under the key are the
\* entry of a call that wrote in that step, the last writer.
C20_ConcurrentMissesLastWriterWins ==
    [][\A p, q \in Procs :
         (/\ ConcurrentMisses(p, q)
          /\ call[p].pc = "finish"
          /\ call'[p] # call[p])
         => (/\ call'[p].pc = "done"
             /\ call'[p].set = "ok"
             /\ call'[q].pc = "done" =>
                   \E w \in {p, q} :
                      /\ call[w].pc = "finish"
                      /\ IsEntryFrom(data'[call[p].key], call[w].resp, now))]_vars

---------------------------------------------------------------------------
(* C21 *)

\* what IgnoreExpired, IgnoreCache and OnlyCached return on context id
Readings(h, id) ==
    <<IgnoreExpired(Flags(h, id)), IgnoreCache(Flags(h, id)), OnlyCached(Flags(h, id))>>

\* the place in Readings of the reader of the flag kept under key k
ReaderOf(k) ==
    IF k = "contextKeyIgnoreExpired" THEN 1
    ELSE IF k = "contextKeyIgnoreCache" THEN 2 ELSE 3

\* C21: the three readers return false on the context on which no flag was
\* set; when a context is derived by WithIgnoreExpired, WithIgnoreCache or
\* WithOnlyCached, the reader of that flag returns on the child the value
\* given, the two other readers return on the child what they return on
\* the parent, and every reader returns on every context that existed
\* before, the parent included, what it returned before.  Along any chain
\* of derivations each reader thus returns the value of the most recent
\* With-call for its own flag.
C21_ContextFlags ==
    [][/\ Readings(contexts, 0) = <<FALSE, FALSE, FALSE>>
       /\ Len(contexts') = Len(contexts) + 1 =>
             LET c == Len(contexts')
                 n == contexts'[c]
             IN  /\ \A id \in 0..Len(contexts) :
                       Readings(contexts', id) = Readings(contexts, id)
                 /\ \A i \in 1..3 :
                       Readings(contexts', c)[i] =
                          IF i = ReaderOf(n.key) THEN n.val
                          ELSE Readings(contexts, n.parent)[i]]_vars

\* C21's case: ignoreExpired set, then ignoreCache set on the child, then
\* ignoreExpired cleared on the grandchild: the grandchild reads (false,
\* true, false) while its parent still reads (true, true, false)
C21_Witness ==
    /\ Len(contexts) = 3
    /\ contexts[1] = [parent |-> 0, key |-> "contextKeyIgnoreExpired", val |-> TRUE]
    /\ contexts[2] = [parent |-> 1, key |-> "contextKeyIgnoreCache", val |-> TRUE]
    /\ contexts[3] = [parent |-> 2, key |-> "contextKeyIgnoreExpired", val |-> FALSE]
    /\ Readings(contexts, 3) = <<FALSE, TRUE, FALSE>>
    /\ Readings(contexts, 2) = <<TRUE, TRUE, FALSE>>
    /\ Readings(contexts, 1) = <<TRUE, FALSE, FALSE>>
    /\ Readings(contexts, 0) = <<FALSE, FALSE, FALSE>>

---------------------------------------------------------------------------
(* C22 *)

\* the transport's response with, under each header name, the first of its
\* values alone
FirstValues(resp) ==
    [StatusCode |-> resp.StatusCode,
     Body       |-> resp.Body,
     Header     |-> [n \in DOMAIN resp.Header |-> <<resp.Header[n][1]>>]]

---------------------------------------------------------------------------
(* C23 *)

\* the calls of Set on key k among the first i - 1 calls
SetsBefore(i, k) ==
    {j \in 1..(i - 1) : history[j].op = "Set" /\ history[j].key = k}

\* C23: on a provider made by New, every Get returns no error; it returns
\* the bytes given to the most recent Set on its key, whatever was set on
\* other keys since, and nil when its key was never set; and no Set
\* returns an error.
C23_MemoryProvider ==
    mem # NilMap =>
        \A i \in 1..Len(history) :
            /\ history[i].err = NoError
            /\ history[i].op = "Get" =>
                  LET S == SetsBefore(i, history[i].key) IN
                  IF S = {}
                  THEN history[i].value = NilSlice
                  ELSE history[i].value =
                          history[CHOOSE j \in S : \A x \in S : x <= j].value

\* C23's case: after Set(k1, v1) and then Set(k2, v2), Get(k1) has returned
\* v1
C23_Witness ==
    /\ mem # NilMap
    /\ history = << [op |-> "Set", key |-> "k1", value |-> Bytes("v1"), err |-> NoError],
                    [op |-> "Set", key |-> "k2", value |-> Bytes("v2"), err |-> NoError],
                    [op |-> "Get", key |-> "k1", value |-> Bytes("v1"), err |-> NoError] >>

----------------------------------------------------------------------------
(* C24 *)

\* the positions of the 'cache.Do' events among the events of the call c
Completions(c) == {i \in DOMAIN c.events : c.events[i].msg = "cache.Do"}

\* the tag of the path the GET call c took, from its flags, what the storage
\* held when it began and the outcome of its read ("" when the read failed)
PathTag(c) ==
    IF ~c.ctx.ignoreCache /\ c.get = "err" THEN ""
    ELSE IF ~c.ctx.ignoreCache /\ c.held = "fresh" THEN "hit"
    ELSE IF ~c.ctx.ignoreCache /\ c.held = "expired" /\ c.ctx.ignoreExpired
         THEN "ignored_expiry"
    ELSE IF c.ctx.onlyCached THEN "ignored_check"
    ELSE IF c.ctx.ignoreCache THEN "ignored"
    ELSE IF c.held = "expired" THEN "expired"
    ELSE "miss"

\* C24: a call of Do, GET or not, successful or failing, has emitted no
\* 'cache.Do' event while it runs and exactly one when it returns, as its
\* last event.  On a GET the event's cache tag names the path taken: hit for
\* a fresh entry, ignored_expiry when ignoreExpired returns an expired
\* entry, ignored_check whenever the onlyCached branch is taken, and
\* otherwise ignored under ignoreCache, expired when an expired entry is
\* revalidated, miss when no entry was found and a fetch follows; a failed
\* read of the storage leaves the event without tag, as does a method other
\* than GET.
C24_CompletionEvent ==
    [][\A p \in Procs :
         /\ call'[p].pc \notin {"done", "crashed"} => Completions(call'[p]) = {}
         /\ Returns(p)
            => LET c == call'[p]
                   n == Len(c.events)
               IN  /\ Completions(call[p]) = {}
                   /\ Completions(c) = {n}
                   /\ c.events[n].fields["url"] = ReqURL(c.req)
                   /\ IF ReqMethod(c.req) = "GET" /\ PathTag(c) # ""
                      THEN /\ "cache" \in DOMAIN c.events[n].fields
                           /\ c.events[n].fields["cache"] = PathTag(c)
                      ELSE "cache" \notin DOMAIN c.events[n].fields]_vars

\* C24's case: a GET with onlyCached set on a key that holds nothing has
\* returned ErrCacheMiss, and its one completion event is tagged
\* ignored_check
C24_Witness ==
    \E p \in Procs :
        /\ call[p].pc = "done"
        /\ ReqMethod(call[p].req) = "GET"
        /\ call[p].ctx.onlyCached
        /\ call[p].held = "absent"
        /\ call[p].err = ErrCacheMiss
        /\ Completions(call[p]) = {Len(call[p].events)}
        /\ call[p].events[Len(call[p].events)].fields["cache"] = "ignored_check"

----------------------------------------------------------------------------
(* C25 *)

IgnoreExpiredAndOnlyCached == GetCtx(TRUE, FALSE, TRUE)

\* C25: a GET with ignoreExpired and onlyCached both set, and ignoreCache
\* not, on a key that holds an expired entry, whose read of the storage
\* succeeds, returns in its first step: the response is the stored entry's,
\* with no error (so never ErrCacheMiss), the state is ignored_expiry and
\* not ignored_check, the transport has not been called, and the storage is
\* unchanged.  A failed read returns the provider's error, not ErrCacheMiss.
C25_IgnoreExpiredBeforeOnlyCached ==
    [][\A p \in Procs :
         (/\ StartsGet(p)
          /\ call'[p].ctx = IgnoreExpiredAndOnlyCached
          /\ StoredExpired(call'[p].key))
         => (/\ call'[p].pc = "done"
             /\ call'[p].transportCalls = 0
             /\ call'[p].err # ErrCacheMiss
             /\ data' = data
             /\ IF call'[p].get = "err"
                THEN call'[p].err = ErrProviderGet /\ call'[p].ret = NoResp
                ELSE /\ call'[p].err = NoError
                     /\ IsStoredResponse(call'[p].ret, call'[p].key)
                     /\ call'[p].stat = "ignored_expiry"
                     /\ call'[p].events[Len(call'[p].events)].fields["cache"]
                           = "ignored_expiry")]_vars

\* C25's case: a GET with ignoreExpired and onlyCached on a key that held an
\* expired entry has returned that entry in state ignored_expiry
C25_Witness ==
    \E p \in Procs :
        /\ call[p].pc = "done"
        /\ call[p].ctx = IgnoreExpiredAndOnlyCached
        /\ call[p].held = "expired"
        /\ call[p].stat = "ignored_expiry"
        /\ call[p].err = NoError
        /\ call[p].transportCalls = 0
        /\ IsStoredResponse(call[p].ret, call[p].key)

----------------------------------------------------------------------------
(* C26 *)

\* C26: a GET with ignoreCache set, whatever the other flags and whatever
\* is stored, (a) begins without a call of provider.Get and with no entry,
\* and leaves the request's headers as they were, so that no If-None-Match
\* comes from the storage even when the stored entry has an ETag; (b) makes
\* no provider.Get later in the call; (c) when the transport answers 304,
\* returns the 'no cached entry' error with no response, not the stored
\* body, and leaves the storage unchanged.
C26_IgnoreCacheNoEntry ==
    [][\A p \in Procs :
         /\ (StartsGet(p) /\ call'[p].ctx.ignoreCache)
            => (/\ call'[p].get = "none"
                /\ call'[p].entry = NoEntry
                /\ reqHeader' = reqHeader)
         /\ (InGet(p)' /\ call'[p].ctx.ignoreCache)
            => \A i \in DOMAIN call'[p].ops : call'[p].ops[i] # "Get"
         /\ (/\ InGet(p)
             /\ call[p].ctx.ignoreCache
             /\ call[p].pc = "finish"
             /\ Returns(p)
             /\ call[p].resp.StatusCode = 304)
            => (/\ call'[p].err = ErrNoCachedEntry
                /\ call'[p].ret = NoResp
                /\ call'[p].set = "none"
                /\ data' = data)]_vars

\* C26's case: a GET with ignoreCache on a key that holds an entry with an
\* ETag made no provider.Get, was answered 304 by the transport and has
\* returned the 'no cached entry' error
C26_Witness ==
    \E p \in Procs :
        /\ call[p].pc = "done"
        /\ ReqMethod(call[p].req) = "GET"
        /\ call[p].ctx.ignoreCache
        /\ call[p].held \in {"fresh", "expired"}
        /\ StoredETag(call[p].key)
        /\ call[p].get = "none"
        /\ call[p].resp # NoResp
        /\ call[p].resp.StatusCode = 304
        /\ call[p].err = ErrNoCachedEntry

----------------------------------------------------------------------------
(* C27 *)

\* C27: (a) the entry a GET reads is, field for field, what is stored under
\* the key.  (b) When a GET that read an entry is answered 304, the bytes
\* it writes back are that same entry: same timestamp, status, body and
\* headers, Expires included, so the stored entry is still expired; no
\* other key is written; a failed provider.Set leaves the storage as it
\* is; and when the storage still holds the entry read, the step changes
\* nothing in it.  (c) A GET without flags on a key that holds an expired
\* entry, whose read succeeds, goes to the transport.
C27_NotModifiedKeepsEntry ==
    [][\A p \in Procs :
         /\ (StartsGet(p) /\ call'[p].entry # NoEntry)
            => Marshal(call'[p].entry) = data[call'[p].key]
         /\ (/\ InGet(p)
             /\ call[p].pc = "finish"
             /\ Returns(p)
             /\ call[p].resp.StatusCode = 304
             /\ call[p].entry # NoEntry)
            => (/\ \A k \in Keys \ {call[p].key} : data'[k] = data[k]
                /\ call'[p].set = "ok"
                      => (/\ data'[call[p].key] = Marshal(call[p].entry)
                          /\ StoredExpired(call[p].key)')
                /\ call'[p].set # "ok" => data' = data
                /\ data[call[p].key] = Marshal(call[p].entry) => data' = data)
         /\ (/\ StartsGet(p)
             /\ call'[p].ctx = Background
             /\ StoredExpired(call'[p].key)
             /\ call'[p].get = "ok")
            => (/\ call'[p].pc = "dispatch"
                /\ call'[p].stat = "expired")]_vars

\* C27's case: a GET that read an expired entry stored earlier was answered
\* 304 and wrote it back; the stored entry has its old timestamp and is
\* still expired
C27_Witness ==
    \E p \in Procs :
        /\ call[p].pc = "done"
        /\ call[p].resp # NoResp
        /\ call[p].resp.StatusCode = 304
        /\ "Expires" \in DOMAIN call[p].resp.Header
        /\ call[p].set = "ok"
        /\ call[p].entry # NoEntry
        /\ data[call[p].key] = Marshal(call[p].entry)
        /\ data[call[p].key].ts < now
        /\ StoredExpired(call[p].key)

----------------------------------------------------------------------------
(* C28 *)

\* the positions of the error events among the events of the call c
ErrorEvents(c) == {i \in DOMAIN c.events : c.events[i].level = "ERROR"}

\* the claim as it stands: every GET that returns an error, ErrCacheMiss
\* included, has emitted an error event before its completion event
C28_Original ==
    [][\A p \in Procs :
         (/\ Returns(p)
          /\ ReqMethod(call'[p].req) = "GET"
          /\ call'[p].err # NoError)
         => \E i \in ErrorEvents(call'[p]) : i < Len(call'[p].events)]_vars

\* C28: when a GET returns an error other than ErrCacheMiss (a failed read
\* of the storage, a failed transport call, a 304 with no entry, a failed
\* store), Do has emitted exactly one error event, carrying the cause, and
\* the completion event comes right after it as the last event.  A GET that
\* returns ErrCacheMiss has emitted no error event, only the completion
\* event.  A GET that returns no error has emitted an error event only when
\* the write on the 304 path failed.
C28_ErrorEvents ==
    [][\A p \in Procs :
         (Returns(p) /\ ReqMethod(call'[p].req) = "GET")
         => LET c == call'[p]
                n == Len(c.events)
            IN  /\ c.events[n].msg = "cache.Do"
                /\ IF c.err = ErrCacheMiss
                   THEN ErrorEvents(c) = {} /\ n = 1
                   ELSE IF c.err # NoError
                   THEN /\ ErrorEvents(c) = {n - 1}
                        /\ n = 2
                        /\ c.events[1].msg = "error"
                        /\ c.events[1].err =
                              (IF c.err = ErrHttpDo THEN ErrTransport ELSE c.err)
                        /\ c.err \in {ErrProviderGet, ErrHttpDo,
                                      ErrNoCachedEntry, ErrStore}
                   ELSE ErrorEvents(c) # {}
                           <=> (/\ c.resp # NoResp
                                /\ c.resp.StatusCode = 304
                                /\ c.set = "err")]_vars

\* C28's case: a GET whose transport call failed has returned the error
\* after an error event and then the completion event
C28_Witness ==
    \E p \in Procs :
        /\ call[p].pc = "done"
        /\ ReqMethod(call[p].req) = "GET"
        /\ call[p].err = ErrHttpDo
        /\ Len(call[p].events) = 2
        /\ call[p].events[1].level = "ERROR"
        /\ call[p].events[2].msg = "cache.Do"

----------------------------------------------------------------------------
(* C29 *)

\* the number of calls named op among the calls the call c has made
Calls(c, op) == Cardinality({i \in DOMAIN c.ops : c.ops[i] = op})

\* C29: at every point of a GET call Do has made at most one provider.Get,
\* at most one call of the transport and at most one provider.Set, the Get
\* before the transport call and the Set after it, and no Set without a
\* transport call; when the call has returned, it has returned either a
\* response and no error, or an error and no response.
C29_OneOutcome ==
    \A p \in Procs :
        InGet(p) =>
           LET c == call[p] IN
           /\ Calls(c, "Get") + Calls(c, "Do") + Calls(c, "Set") = Len(c.ops)
           /\ Calls(c, "Get") <= 1
           /\ Calls(c, "Do") <= 1
           /\ Calls(c, "Set") <= 1
           /\ \A i, j \in DOMAIN c.ops :
                 i < j => <<c.ops[i], c.ops[j]>> \in
                             {<<"Get", "Do">>, <<"Get", "Set">>, <<"Do", "Set">>}
           /\ Calls(c, "Set") = 1 => Calls(c, "Do") = 1
           /\ Calls(c, "Get") = 1 <=> c.get # "none"
           /\ Calls(c, "Do") = c.transportCalls
           /\ Calls(c, "Set") = 1 <=> c.set # "none"
           /\ c.pc = "done" => (c.ret # NoResp <=> c.err = NoError)
           /\ c.pc # "done" => (c.ret = NoResp /\ c.err = NoError)

\* C29's case: a GET has read the storage, called the transport and written
\* the storage, once each and in that order, and has returned a response
\* with no error
C29_Witness ==
    \E p \in Procs :
        /\ call[p].pc = "done"
        /\ ReqMethod(call[p].req) = "GET"
        /\ call[p].ops = <<"Get", "Do", "Set">>
        /\ call[p].ret # NoResp
        /\ call[p].err = NoError

----------------------------------------------------------------------------
(* C30 *)

\* C30: a step of a call of Do changes the storage only when the transport
\* has answered that call with a response: the steps up to the call of the
\* transport and the call of the transport itself leave the storage as it
\* is, provider.Set is invoked only by a call that holds the transport's
\* response, and a call that has returned without a transport call (hit,
\* ignored_expiry, the onlyCached branches, a failed read) has made no
\* provider.Set.
C30_WriteOnlyAfterTransport ==
    [][\A p \in Procs :
         /\ (call'[p] # call[p] /\ call[p].pc # "finish") => data' = data
         /\ Calls(call'[p], "Set") > Calls(call[p], "Set")
            => (/\ call[p].pc = "finish"
                /\ call[p].resp # NoResp
                /\ call[p].transportCalls = 1
                /\ call[p].ops[Len(call[p].ops)] = "Do")
         /\ (Returns(p) /\ call'[p].transportCalls = 0)
            => (/\ call'[p].set = "none"
                /\ Calls(call'[p], "Set") = 0
                /\ data' = data
                /\ ReqMethod(call'[p].req) = "GET"
                /\ \/ call'[p].stat \in {"hit", "ignored_expiry", "ignored_check"}
                   \/ call'[p].get = "err")]_vars

\* C30's case: a GET that found a fresh entry has returned it without a
\* transport call and without a provider.Set, and the storage holds the
\* entry as it was read
C30_Witness ==
    \E p \in Procs :
        /\ call[p].pc = "done"
        /\ call[p].stat = "hit"
        /\ call[p].transportCalls = 0
        /\ call[p].ops = <<"Get">>
        /\ data[call[p].key] = Marshal(call[p].entry)
        /\ data[call[p].key].ts < now

----------------------------------------------------------------------------
(* C31 *)

\* the request of the call c carries If-None-Match with the ETag of the
\* entry the call read
SentETagOf(c, h) ==
    /\ c.get = "ok"
    /\ c.entry # NoEntry
    /\ "ETag" \in DOMAIN c.entry.Headers
    /\ h["If-None-Match"] = c.entry.Headers["ETag"]

\* C31: when a GET goes to the transport with a request that carries
\* If-None-Match, the call has read an entry for the key and the header's
\* value is that entry's ETag; and when the answer to such a request is
\* 304 and Do returns the body of the entry it holds, the ETag the request
\* carried is that entry's.  Requests may be passed to Do again after an
\* earlier call has returned.
C31_ConditionalHeaderFromEntryRead ==
    [][\A p \in Procs :
         /\ (/\ InGet(p)
             /\ call[p].pc = "dispatch"
             /\ call'[p].transportCalls = call[p].transportCalls + 1
             /\ "If-None-Match" \in DOMAIN reqHeader[call[p].req])
            => SentETagOf(call[p], reqHeader[call[p].req])
         /\ (/\ InGet(p)
             /\ call[p].pc = "finish"
             /\ Returns(p)
             /\ call[p].resp.StatusCode = 304
             /\ call[p].entry # NoEntry)
            => ("If-None-Match" \in DOMAIN reqHeader[call[p].req]
                   => SentETagOf(call[p], reqHeader[call[p].req]))]_vars

----------------------------------------------------------------------------
(* C32 *)

\* p ends on the 304 path in this step, while the storage holds under its
\* key an entry other than the one p read when it began: an entry another
\* call has stored in the meantime
NotModifiedAfterStore(p) ==
    /\ InGet(p)
    /\ call[p].pc = "finish"
    /\ Returns(p)
    /\ call[p].resp.StatusCode = 304
    /\ call[p].entry # NoEntry
    /\ StoredEntry(call[p].key)
    /\ data[call[p].key] # Marshal(call[p].entry)

\* C32: with callers running Do at the same time on one key, a call that
\* ends on the 304 path leaves in place the entry that another call has
\* stored under the key since the first one read it: it does not put back
\* the older entry it read, so that the entry built from the latest
\* response that was no 304 is what stays stored.
C32_NotModifiedKeepsNewerEntry ==
    [][\A p \in Procs :
         NotModifiedAfterStore(p) => data'[call[p].key] = data[call[p].key]]_vars

=============================================================================
